---- MODULE Spec2Model ----
(***************************************************************************)
(* Model of the archibald `instruction_table!` procedural macro            *)
(* (src/src/lib.rs): pattern parsing, variable expansion, overlap          *)
(* resolution, match-arm generation, and the generated dispatcher.         *)
(*                                                                         *)
(* A u64 is modelled as the set of its set bit positions (0 = LSB):        *)
(*   a | b  is  a \cup b,   a & b  is  a \cap b,                           *)
(*   a << k is  Shl(a, k),  a as uN is  a \cap 0..N-1.                     *)
(* A string is a sequence of one-character strings.                        *)
(***************************************************************************)
EXTENDS Integers, Sequences, FiniteSets, TLC

VARIABLES table, pc, idx, match_arms, seen_patterns, error, opcode, calls,
          panic_msg

vars == <<table, pc, idx, match_arms, seen_patterns, error, opcode, calls,
          panic_msg>>

(***************************************************************************)
(* Bounds of the model                                                     *)
(***************************************************************************)
MaxEntries == 3

(***************************************************************************)
(* Machine words                                                           *)
(***************************************************************************)
U64Bits == 64

Shl(a, k) == {p + k : p \in a} \cap (0 .. U64Bits - 1)

SetMin(S) == CHOOSE m \in S : \A x \in S : m <= x

Widths == {8, 16, 32, 64}

DigitChars == {"0", "1"}
WildcardChars == {"_", "."}
LowercaseChars ==
    {"a", "b", "c", "d", "e", "f", "g", "h", "i", "j", "k", "l", "m",
     "n", "o", "p", "q", "r", "s", "t", "u", "v", "w", "x", "y", "z"}
WhitespaceChars == {" "}

(***************************************************************************)
(* str::trim                                                               *)
(***************************************************************************)
RECURSIVE TrimStart(_)
TrimStart(s) ==
    IF s # <<>> /\ Head(s) \in WhitespaceChars THEN TrimStart(Tail(s)) ELSE s

RECURSIVE TrimEnd(_)
TrimEnd(s) ==
    IF s # <<>> /\ s[Len(s)] \in WhitespaceChars
    THEN TrimEnd(SubSeq(s, 1, Len(s) - 1))
    ELSE s

Trim(s) == TrimEnd(TrimStart(s))

(***************************************************************************)
(* parse_pattern: the panic of the length assertion comes first, then the  *)
(* panic of the first invalid character met by the scan.                   *)
(***************************************************************************)
BitPos(bit_width, i) == bit_width - 1 - (i - 1)

\* a length check that lets every whole number of bytes through
ValidLength_bytes(bit_width) == bit_width > 0 /\ bit_width % 8 = 0

\* the assertion on the length of the trimmed pattern
ValidLength(bit_width) == bit_width \in Widths

\* the orders in which a hash map with the key set S may be iterated
Orders(S) ==
    {o \in [1 .. Cardinality(S) -> S] : \A i, j \in DOMAIN o : i # j => o[i] # o[j]}

\* variables.insert(var_char, (min_pos, num_bits))
InsertVariable(variables, var_char, range) ==
    [c \in DOMAIN variables \cup {var_char} |->
        IF c = var_char THEN range ELSE variables[c]]

\* `for (var_char, positions) in var_positions`, iterated in hash_order
RECURSIVE ConvertPositions(_, _, _, _)
ConvertPositions(var_positions, hash_order, k, variables) ==
    IF k > Len(hash_order) THEN variables
    ELSE ConvertPositions(var_positions, hash_order, k + 1,
             InsertVariable(variables, hash_order[k],
                            <<SetMin(var_positions[hash_order[k]]),
                              Cardinality(var_positions[hash_order[k]])>>))

\* hash_order: the order in which the maps over the pattern's letters iterate
parse_pattern(raw, hash_order) ==
    LET pattern == Trim(raw)
        bit_width == Len(pattern)
        I == 1 .. bit_width
        var_chars == {pattern[i] : i \in {j \in I : pattern[j] \in LowercaseChars}}
        var_positions == [c \in var_chars |->
                            {BitPos(bit_width, i) : i \in {j \in I : pattern[j] = c}}]
    IN  IF ~ValidLength(bit_width)
        THEN [ok |-> FALSE, error |-> "pattern length"]
        ELSE IF \E i \in I : pattern[i] \notin DigitChars \cup WildcardChars \cup LowercaseChars
        THEN [ok |-> FALSE, error |-> "pattern character"]
        ELSE [ok |-> TRUE,
              mask |-> {BitPos(bit_width, i) : i \in {j \in I : pattern[j] \in DigitChars}},
              value |-> {BitPos(bit_width, i) : i \in {j \in I : pattern[j] = "1"}},
              variables |-> ConvertPositions(var_positions, hash_order, 1, <<>>),
              iter_order |-> hash_order,
              wildcard_bits |-> {BitPos(bit_width, i) : i \in {j \in I : pattern[j] \in WildcardChars}},
              bit_width |-> bit_width]

(***************************************************************************)
(* BitMapping::parse: the literal token with an optional 0b / 0B prefix    *)
(* stripped.                                                               *)
(***************************************************************************)
BitMappingParse(m) ==
    [bits |-> IF Len(m.lit) >= 2 /\ m.lit[1] = "0" /\ m.lit[2] \in {"b", "B"}
              THEN SubSeq(m.lit, 3, Len(m.lit))
              ELSE m.lit,
     variant |-> m.variant]

VariableBindingParse(b) ==
    [name |-> b.name,
     mappings |-> [k \in 1 .. Len(b.mappings) |-> BitMappingParse(b.mappings[k])]]

(***************************************************************************)
(* u64::from_str_radix(bits, 2): Err on an empty string, on a character    *)
(* that is not a binary digit, and on a value that does not fit 64 bits.   *)
(***************************************************************************)
from_str_radix(bits) ==
    LET n == Len(bits)
        v == {n - i : i \in {j \in 1 .. n : bits[j] = "1"}}
    IN  IF n = 0 \/ (\E i \in 1 .. n : bits[i] \notin DigitChars)
           \/ (\E p \in v : p >= U64Bits)
        THEN [ok |-> FALSE]
        ELSE [ok |-> TRUE, val |-> v]

(***************************************************************************)
(* generate_combinations: depth-first over var_info, the mappings of each  *)
(* variable in their order; the first literal that does not parse panics.  *)
(***************************************************************************)
RECURSIVE generate_combinations(_, _, _, _)
RECURSIVE for_mappings(_, _, _, _, _)

for_mappings(current_opcode, var_info, index, current_bindings, k) ==
    LET vi == var_info[index]
        mapping == vi.mappings[k]
        bits_value == from_str_radix(mapping.bits)
        new_opcode == current_opcode \cup Shl(bits_value.val, vi.bit_pos)
        new_bindings == Append(current_bindings, <<vi.name, vi.name, mapping.variant>>)
        sub == generate_combinations(new_opcode, var_info, index + 1, new_bindings)
        rest == for_mappings(current_opcode, var_info, index, current_bindings, k + 1)
    IN  IF k > Len(vi.mappings) THEN [ok |-> TRUE, results |-> <<>>]
        ELSE IF ~bits_value.ok THEN [ok |-> FALSE, error |-> "bit literal"]
        ELSE IF ~sub.ok THEN sub
        ELSE IF ~rest.ok THEN rest
        ELSE [ok |-> TRUE, results |-> sub.results \o rest.results]

generate_combinations(current_opcode, var_info, index, current_bindings) ==
    IF index > Len(var_info)
    THEN [ok |-> TRUE,
          results |-> <<[opcode |-> current_opcode, bindings |-> current_bindings]>>]
    ELSE for_mappings(current_opcode, var_info, index, current_bindings, 1)

IsExpandable(pattern, binding) == binding.name \in DOMAIN pattern.variables

\* a list built by iterating the map pattern.variables, not the bindings
VarInfo_by_map(pattern, bindings) ==
    LET named(c) == SelectSeq(bindings, LAMBDA b : b.name = c)
        keys == SelectSeq(pattern.iter_order, LAMBDA c : named(c) # <<>>)
    IN  [k \in 1 .. Len(keys) |->
            [name |-> keys[k],
             bit_pos |-> pattern.variables[keys[k]][1],
             num_bits |-> pattern.variables[keys[k]][2],
             mappings |-> named(keys[k])[1].mappings]]

\* `for binding in bindings`: the bindings of letters of the pattern, in order
VarInfo(pattern, bindings) ==
    LET bound == SelectSeq(bindings, LAMBDA b : IsExpandable(pattern, b))
    IN  [k \in 1 .. Len(bound) |->
            [name |-> bound[k].name,
             bit_pos |-> pattern.variables[bound[k].name][1],
             num_bits |-> pattern.variables[bound[k].name][2],
             mappings |-> bound[k].mappings]]

generate_opcode_variants(pattern, bindings) ==
    LET var_info == VarInfo(pattern, bindings)
    IN  IF var_info = <<>>
        THEN [ok |-> TRUE, results |-> <<[opcode |-> pattern.value, bindings |-> <<>>]>>]
        ELSE generate_combinations(pattern.value, var_info, 1, <<>>)

(***************************************************************************)
(* make_literal truncates to the pattern's width; make_full_mask           *)
(***************************************************************************)
\* a width cut that keeps the low byte only
make_literal_u8(value, bit_width) == value \cap (0 .. 7)

make_literal(value, bit_width) == value \cap (0 .. bit_width - 1)

make_full_mask(bit_width) == 0 .. bit_width - 1

(***************************************************************************)
(* generate_handler_call: each generic argument resolved; a Variable       *)
(* argument takes the variant of the first binding of that name and        *)
(* panics when there is none.                                              *)
(***************************************************************************)
FindBinding(bindings, var_name) ==
    LET hits == {k \in 1 .. Len(bindings) : bindings[k][1] = var_name}
    IN  IF hits = {} THEN <<>> ELSE <<bindings[SetMin(hits)][3]>>

ResolveArg(arg, bindings) ==
    IF arg.kind = "Variable"
    THEN <<arg.enum_type, FindBinding(bindings, arg.var_name)[1]>>
    ELSE <<arg.tokens>>

generate_handler_call(handler, bindings) ==
    IF \E k \in 1 .. Len(handler.generics) :
          /\ handler.generics[k].kind = "Variable"
          /\ FindBinding(bindings, handler.generics[k].var_name) = <<>>
    THEN [ok |-> FALSE, error |-> "variable not found"]
    ELSE [ok |-> TRUE,
          call |-> [name |-> handler.name,
                    generics |-> [k \in 1 .. Len(handler.generics) |->
                                     ResolveArg(handler.generics[k], bindings)]]]

(***************************************************************************)
(* The body of the loop over table.entries in instruction_table            *)
(***************************************************************************)
has_expandable_vars(pattern, bindings) ==
    \E k \in 1 .. Len(bindings) : IsExpandable(pattern, bindings[k])

\* a mask of the fixed bits alone
ExpandedMask_fixed(pattern, bindings) == pattern.mask

\* fixed bits plus the (start_bit, num_bits) range of every expanded variable
ExpandedMask(pattern, bindings) ==
    pattern.mask \cup
    UNION {{pattern.variables[bindings[k].name][1] + i :
                i \in 0 .. pattern.variables[bindings[k].name][2] - 1} :
           k \in {j \in 1 .. Len(bindings) : IsExpandable(pattern, bindings[j])}}

\* a guard that compares the whole opcode
GuardArm_full(mask, value, bit_width, call, e) ==
    [kind |-> "guard", mask |-> make_full_mask(bit_width),
     value |-> make_literal(value, bit_width), bit_width |-> bit_width,
     call |-> call, entry |-> e]

GuardArm(mask, value, bit_width, call, e) ==
    [kind |-> "guard", mask |-> make_literal(mask, bit_width),
     value |-> make_literal(value, bit_width), bit_width |-> bit_width,
     call |-> call, entry |-> e]

LiteralArm(value, bit_width, call, e) ==
    [kind |-> "literal", mask |-> make_full_mask(bit_width),
     value |-> make_literal(value, bit_width), bit_width |-> bit_width,
     call |-> call, entry |-> e]

\* a test that drops the candidate when any entry seen has its value
Dominated_any(seen, full_mask, opcode_value) ==
    \E k \in 1 .. Len(seen) : seen[k][2] = opcode_value

\* a guarded candidate is dropped when an exact entry for its value was seen
Dominated(seen, full_mask, opcode_value) ==
    \E k \in 1 .. Len(seen) : seen[k][1] = full_mask /\ seen[k][2] = opcode_value

SeenContains(seen, key) == \E k \in 1 .. Len(seen) : seen[k] = key

\* an arm inserted ahead of the accepted ones instead of after them
Push_front(st, arm, key) ==
    [ok |-> TRUE, arms |-> <<arm>> \o st.arms, seen |-> Append(st.seen, key)]

\* match_arms.push(arm); seen_patterns.push(key)
Push(st, arm, key) ==
    [ok |-> TRUE, arms |-> Append(st.arms, arm), seen |-> Append(st.seen, key)]

\* one iteration of `for (opcode, var_bindings) in variants`
VariantStep(entry, pattern, expanded_mask, variant, st, e) ==
    LET full_mask == make_full_mask(pattern.bit_width)
        hc == generate_handler_call(entry.handler, variant.bindings)
    IN  IF pattern.wildcard_bits # {}
        THEN IF ~hc.ok THEN [ok |-> FALSE, error |-> hc.error]
             ELSE IF Dominated(st.seen, full_mask, variant.opcode) THEN st
             ELSE Push(st, GuardArm(expanded_mask, variant.opcode, pattern.bit_width,
                                    hc.call, e),
                       <<expanded_mask, variant.opcode>>)
        ELSE IF SeenContains(st.seen, <<full_mask, variant.opcode>>) THEN st
             ELSE IF ~hc.ok THEN [ok |-> FALSE, error |-> hc.error]
             ELSE Push(st, LiteralArm(variant.opcode, pattern.bit_width, hc.call, e),
                       <<full_mask, variant.opcode>>)

RECURSIVE VariantLoop(_, _, _, _, _, _, _)
VariantLoop(entry, pattern, expanded_mask, variants, k, st, e) ==
    IF k > Len(variants) \/ ~st.ok THEN st
    ELSE VariantLoop(entry, pattern, expanded_mask, variants, k + 1,
                     VariantStep(entry, pattern, expanded_mask, variants[k], st, e), e)

EntryStep(entry, st, e, hash_order) ==
    LET pattern == parse_pattern(entry.pattern, hash_order)
        bindings == [k \in 1 .. Len(entry.where_clause) |->
                        VariableBindingParse(entry.where_clause[k])]
        variants == generate_opcode_variants(pattern, bindings)
        full_mask == make_full_mask(pattern.bit_width)
        hc == generate_handler_call(entry.handler, <<>>)
    IN  IF ~pattern.ok THEN [ok |-> FALSE, error |-> pattern.error]
        ELSE IF has_expandable_vars(pattern, bindings)
        THEN IF ~variants.ok THEN [ok |-> FALSE, error |-> variants.error]
             ELSE VariantLoop(entry, pattern, ExpandedMask(pattern, bindings),
                              variants.results, 1, st, e)
        ELSE IF pattern.wildcard_bits # {} \/ DOMAIN pattern.variables # {}
        THEN IF ~hc.ok THEN [ok |-> FALSE, error |-> hc.error]
             ELSE Push(st, GuardArm(pattern.mask, pattern.value, pattern.bit_width,
                                    hc.call, e),
                       <<pattern.mask, pattern.value>>)
        ELSE IF SeenContains(st.seen, <<full_mask, pattern.value>>) THEN st
        ELSE IF ~hc.ok THEN [ok |-> FALSE, error |-> hc.error]
        ELSE Push(st, LiteralArm(pattern.value, pattern.bit_width, hc.call, e),
                  <<full_mask, pattern.value>>)

(***************************************************************************)
(* The generated dispatcher: `match opcode { arms.. , _ => panic!(..) }`   *)
(***************************************************************************)
ArmMatches(arm, op) ==
    IF arm.kind = "guard" THEN (op \cap arm.mask) = arm.value ELSE op = arm.value

\* a scan that keeps going and lets the last matching arm win
RECURSIVE MatchFrom_last(_, _, _)
MatchFrom_last(arms, op, k) ==
    IF k > Len(arms) THEN 0
    ELSE IF MatchFrom_last(arms, op, k + 1) # 0 THEN MatchFrom_last(arms, op, k + 1)
    ELSE IF ArmMatches(arms[k], op) THEN k
    ELSE 0

RECURSIVE MatchFrom(_, _, _)
MatchFrom(arms, op, k) ==
    IF k > Len(arms) THEN 0
    ELSE IF ArmMatches(arms[k], op) THEN k
    ELSE MatchFrom(arms, op, k + 1)

Invocation(arm, op) ==
    [name |-> arm.call.name, generics |-> arm.call.generics,
     ctx |-> "ctx", opcode |-> op, entry |-> arm.entry]

\* a dispatcher whose default arm returns instead of panicking
dispatch_silent(arms, op) ==
    LET k == MatchFrom(arms, op, 1)
    IN  IF k = 0
        THEN [calls |-> <<>>, panic |-> <<>>]
        ELSE [calls |-> <<Invocation(arms[k], op)>>, panic |-> <<>>]

dispatch(arms, op) ==
    LET k == MatchFrom(arms, op, 1)
    IN  IF k = 0
        THEN [calls |-> <<>>, panic |-> <<"Unhandled opcode", op>>]
        ELSE [calls |-> <<Invocation(arms[k], op)>>, panic |-> <<>>]

(***************************************************************************)
(* Table definitions given to the macro.  The entries are those of the     *)
(* examples (brainfuck.rs, simple_vm.rs) and variations of them.           *)
(***************************************************************************)
E_inc_ptr ==
    [pattern |-> <<"0", "0", "1", "1", "1", "1", "1", "0">>,
     handler |-> [name |-> "op_inc_ptr", generics |-> <<>>],
     where_clause |-> <<>>]

E_dec_ptr ==
    [pattern |-> <<"0", "0", "1", "1", "1", "1", "0", "0">>,
     handler |-> [name |-> "op_dec_ptr", generics |-> <<>>],
     where_clause |-> <<>>]

E_wild ==
    [pattern |-> <<"0", "0", "1", "1", "_", "_", "_", "_">>,
     handler |-> [name |-> "op_wild", generics |-> <<>>],
     where_clause |-> <<>>]

E_add ==
    [pattern |-> <<"1", "1", "r", "r", "_", "_", "_", "_">>,
     handler |-> [name |-> "impl_add", generics |-> <<[kind |-> "Variable", enum_type |-> "Register", var_name |-> "r"]>>],
     where_clause |-> <<[name |-> "r", mappings |-> <<[lit |-> <<"0", "b", "0", "0">>, variant |-> "R0"], [lit |-> <<"0", "b", "0", "1">>, variant |-> "R1"], [lit |-> <<"0", "b", "1", "0">>, variant |-> "R2"], [lit |-> <<"0", "b", "1", "1">>, variant |-> "R3"]>>]>>]

E_move ==
    [pattern |-> <<"0", "0", "1", "0", "d", "d", "s", "s">>,
     handler |-> [name |-> "impl_move", generics |-> <<[kind |-> "Variable", enum_type |-> "Register", var_name |-> "d"], [kind |-> "Variable", enum_type |-> "Register", var_name |-> "s"]>>],
     where_clause |-> <<[name |-> "d", mappings |-> <<[lit |-> <<"0", "b", "0", "0">>, variant |-> "R0"], [lit |-> <<"0", "b", "0", "1">>, variant |-> "R1"]>>],
                       [name |-> "s", mappings |-> <<[lit |-> <<"0", "0">>, variant |-> "R0"], [lit |-> <<"1", "0", "0">>, variant |-> "R1"]>>]>>]

E_load ==
    [pattern |-> <<"0", "0", "1", "1", "r", "r", "_", "_">>,
     handler |-> [name |-> "impl_load", generics |-> <<[kind |-> "Variable", enum_type |-> "Register", var_name |-> "r"]>>],
     where_clause |-> <<[name |-> "r", mappings |-> <<[lit |-> <<"1", "1">>, variant |-> "R3"], [lit |-> <<"0", "0">>, variant |-> "R0"]>>]>>]

E_shift ==
    [pattern |-> <<"0", "0", "1", "1", "1", "1", "r", "0">>,
     handler |-> [name |-> "impl_shift", generics |-> <<[kind |-> "Variable", enum_type |-> "Register", var_name |-> "r"]>>],
     where_clause |-> <<[name |-> "r", mappings |-> <<[lit |-> <<"1">>, variant |-> "R1"], [lit |-> <<"0">>, variant |-> "R0"]>>]>>]

E_wide ==
    [pattern |-> <<"1", "0", "1", "1", "1", "1", "1", "r">>,
     handler |-> [name |-> "impl_wide", generics |-> <<[kind |-> "Variable", enum_type |-> "Register", var_name |-> "r"]>>],
     where_clause |-> <<[name |-> "r", mappings |-> <<[lit |-> <<"0">>, variant |-> "R0"], [lit |-> <<"1", "0", "0", "0", "0", "0", "0">>, variant |-> "R1"], [lit |-> <<"1", "0", "0", "0", "0", "0", "0", "0", "0">>, variant |-> "R2"]>>]>>]

E_unresolved ==
    [pattern |-> <<"0", "0", "1", "1", "1", "1", "1", "0">>,
     handler |-> [name |-> "impl_add", generics |-> <<[kind |-> "Variable", enum_type |-> "Register", var_name |-> "r"]>>],
     where_clause |-> <<>>]

E_stray_binding ==
    [pattern |-> <<"0", "0", "1", "0", "1", "0", "1", "1">>,
     handler |-> [name |-> "op_inc_val", generics |-> <<>>],
     where_clause |-> <<[name |-> "r", mappings |-> <<[lit |-> <<"2">>, variant |-> "R0"]>>]>>]

E_bad_literal ==
    [pattern |-> <<"1", "0", "r", "r", "_", "_", "_", "_">>,
     handler |-> [name |-> "impl_add", generics |-> <<[kind |-> "Variable", enum_type |-> "Register", var_name |-> "r"]>>],
     where_clause |-> <<[name |-> "r", mappings |-> <<[lit |-> <<"0", "b", "0", "0">>, variant |-> "R0"], [lit |-> <<"2">>, variant |-> "R1"]>>]>>]

EntryPool ==
    {E_inc_ptr, E_dec_ptr, E_wild, E_add, E_move, E_load, E_shift,
     E_wide, E_unresolved, E_stray_binding, E_bad_literal}

\* entries of the tables whose Opcode type is u16
E_word ==
    [pattern |-> <<"0", "0", "1", "1", "1", "1", "1", "0", "_", "_", "_", "_", "_", "_", "_", "_">>,
     handler |-> [name |-> "op_word", generics |-> <<>>],
     where_clause |-> <<>>]

WordPool == {E_word, E_inc_ptr}

\* the entry lists over a pool: every instruction is declared once
Declarations(pool, lengths) ==
    {es \in UNION {[1 .. n -> pool] : n \in lengths} :
        \A i, j \in DOMAIN es : i # j => es[i] # es[j]}

Tables ==
    {[opcode_type |-> 8, entries |-> es] : es \in Declarations(EntryPool, 0 .. MaxEntries)}
    \cup
    {[opcode_type |-> 16, entries |-> es] : es \in Declarations(WordPool, 1 .. MaxEntries)}

\* the byte n as a machine word
Byte(n) == {i \in 0 .. 7 : (n \div (2 ^ i)) % 2 = 1}

\* opcodes the callers dispatch: program bytes of the examples and neighbours
ProgramBytes == {202, 36, 228, 46, 64, 62, 60, 61, 43, 85, 0, 255}

\* the byte b in the top byte of a w-bit word, and in every byte of it
TopByte(b, w) == {p + (w - 8) : p \in b}

EveryByte(b, w) == UNION {{p + 8 * j : p \in b} : j \in 0 .. (w \div 8) - 1}

DispatchOpcodes(w) ==
    {TopByte(Byte(n), w) : n \in ProgramBytes} \cup {EveryByte(Byte(n), w) : n \in ProgramBytes}

(***************************************************************************)
(* State machine                                                           *)
(***************************************************************************)
TypeOK ==
    /\ pc \in {"expand", "failed", "ready", "returned", "panicked"}
    /\ idx \in 1 .. Len(table.entries) + 1

InitWith(T) ==
    /\ table \in T
    /\ pc = "expand"
    /\ idx = 1
    /\ match_arms = <<>>
    /\ seen_patterns = <<>>
    /\ error = ""
    /\ opcode = {}
    /\ calls = <<>>
    /\ panic_msg = <<>>

Init == InitWith(Tables)

\* the iteration orders the hash maps of one entry's pattern may have
IterOrders(entry) ==
    Orders({Trim(entry.pattern)[i] : i \in 1 .. Len(Trim(entry.pattern))} \cap LowercaseChars)

EntryResult(hash_order) ==
    EntryStep(table.entries[idx], [ok |-> TRUE, arms |-> match_arms, seen |-> seen_patterns],
              idx, hash_order)

\* one iteration of `for entry in &table.entries` that completes
ExpandEntry ==
    /\ pc = "expand"
    /\ idx <= Len(table.entries)
    /\ \E hash_order \in IterOrders(table.entries[idx]) :
          LET result == EntryResult(hash_order)
          IN  /\ result.ok
              /\ match_arms' = result.arms
              /\ seen_patterns' = result.seen
    /\ idx' = idx + 1
    /\ UNCHANGED <<table, pc, error, opcode, calls, panic_msg>>

\* one iteration that panics: the macro aborts, nothing is emitted
ExpandPanic ==
    /\ pc = "expand"
    /\ idx <= Len(table.entries)
    /\ \E hash_order \in IterOrders(table.entries[idx]) :
          LET result == EntryResult(hash_order)
          IN  /\ ~result.ok
              /\ error' = result.error
    /\ pc' = "failed"
    /\ UNCHANGED <<table, idx, match_arms, seen_patterns, opcode, calls, panic_msg>>

\* the suffixed literals of the arms must have the type of `opcode`
ArmsTypeCheck == \A k \in 1 .. Len(match_arms) : match_arms[k].bit_width = table.opcode_type

EmitDispatcher ==
    /\ pc = "expand"
    /\ idx > Len(table.entries)
    /\ ArmsTypeCheck
    /\ pc' = "ready"
    /\ UNCHANGED <<table, idx, match_arms, seen_patterns, error, opcode, calls, panic_msg>>

EmitTypeError ==
    /\ pc = "expand"
    /\ idx > Len(table.entries)
    /\ ~ArmsTypeCheck
    /\ pc' = "failed"
    /\ error' = "mismatched types"
    /\ UNCHANGED <<table, idx, match_arms, seen_patterns, opcode, calls, panic_msg>>

Dispatch(op) ==
    /\ pc = "ready"
    /\ opcode' = op
    /\ LET outcome == dispatch(match_arms, op)
       IN  /\ calls' = outcome.calls
           /\ panic_msg' = outcome.panic
           /\ pc' = IF outcome.panic = <<>> THEN "returned" ELSE "panicked"
    /\ UNCHANGED <<table, idx, match_arms, seen_patterns, error>>

\* the handler has returned and the caller may dispatch again
Return ==
    /\ pc = "returned"
    /\ pc' = "ready"
    /\ calls' = <<>>
    /\ opcode' = {}
    /\ UNCHANGED <<table, idx, match_arms, seen_patterns, error, panic_msg>>

Next ==
    \/ ExpandEntry
    \/ ExpandPanic
    \/ EmitDispatcher
    \/ EmitTypeError
    \/ \E op \in DispatchOpcodes(table.opcode_type) : Dispatch(op)
    \/ Return

Spec == Init /\ [][Next]_vars

(***************************************************************************)
(* Single-entry tables over a pool of pattern strings, of every opcode     *)
(* type: the specification under which the pattern parser is examined.     *)
(***************************************************************************)
Nibbles ==
    {<<"0", "0", "1", "1">>, <<"1", "1", "1", "0">>, <<"_", "_", "_", "_">>,
     <<"1", "1", "r", "r">>, <<"r", "_", "r", "0">>, <<"0", ".", "1", "_">>,
     <<"d", "d", "s", "s">>, <<"x", "x", "x", "x">>}

Patterns8 == {h \o t : h, t \in Nibbles}

BasePatterns ==
    {<<"0", "0", "1", "1", "1", "1", "1", "0">>,
     <<"0", "0", "1", "1", "_", "_", "_", "_">>,
     <<"1", "1", "r", "r", "_", "_", "_", "_">>}

PatternVariations ==
    UNION {{SubSeq(p, 1, 7), p \o <<"0">>, <<" ">> \o p, p \o <<" ", " ">>,
            <<" ">> \o SubSeq(p, 1, 7), <<" ">> \o p \o <<"1">>,
            SubSeq(p, 1, 4) \o <<" ">> \o SubSeq(p, 5, 7),
            SubSeq(p, 1, 4) \o <<"'">> \o SubSeq(p, 5, 8),
            SubSeq(p, 1, 7) \o <<"X">>, SubSeq(p, 1, 7) \o <<"2">>,
            SubSeq(p, 1, 6) \o <<"2">>,
            p \o p, p \o p \o SubSeq(p, 1, 4), p \o p \o p, p \o p \o p \o p,
            p \o p \o p \o p \o p \o p \o p \o p,
            p \o p \o p \o p \o p \o p \o p \o p \o <<"_">>} : p \in BasePatterns}
    \cup {<<>>, <<" ">>}

PatternPool == Patterns8 \cup PatternVariations

WhereClauses ==
    {<<>>,
     <<[name |-> "r", mappings |-> <<[lit |-> <<"0", "b", "0", "0">>, variant |-> "R0"],
                                     [lit |-> <<"1", "1">>, variant |-> "R3"]>>]>>}

PatternTables ==
    {[opcode_type |-> w,
      entries |-> <<[pattern |-> p,
                     handler |-> [name |-> "op", generics |-> <<>>],
                     where_clause |-> wc]>>] :
        w \in Widths, p \in PatternPool, wc \in WhereClauses}

InitPattern == InitWith(PatternTables)

SpecPattern == InitPattern /\ [][Next]_vars

(***************************************************************************)
(* Vocabulary of the properties                                            *)
(***************************************************************************)
Dispatched == pc \in {"returned", "panicked"}

\* the condition `opcode & mask == value` of decision entry k
Cond(k, op) == (op \cap match_arms[k].mask) = match_arms[k].value

FirstCond(k, op) == Cond(k, op) /\ \A j \in 1 .. k - 1 : ~Cond(j, op)

AllOpcodes == SUBSET (0 .. 7)

\* the opcodes a table of width w is examined on: all of them for a byte,
\* for wider types every byte value repeated in every byte or in the top byte
OpcodesOf(w) ==
    IF w = 8 THEN AllOpcodes
    ELSE {EveryByte(b, w) : b \in AllOpcodes} \cup {TopByte(b, w) : b \in AllOpcodes}

Flip(op, b) == (op \ {b}) \cup ({b} \ op)

Compiled == pc \in {"ready", "returned", "panicked"}

\* a pattern written with 0 and 1 only, and the number it spells MSB-first
IsBinaryPattern(p) == p # <<>> /\ \A i \in 1 .. Len(p) : p[i] \in {"0", "1"}

BinaryValue(p) == {Len(p) - i : i \in {j \in 1 .. Len(p) : p[j] = "1"}}

\* op agrees with every 0 and 1 of the pattern p
AgreesFixed(p, op) ==
    \A i \in 1 .. Len(p) :
        /\ p[i] = "1" => (Len(p) - i) \in op
        /\ p[i] = "0" => (Len(p) - i) \notin op

Letters(p) == {p[i] : i \in 1 .. Len(p)} \cap LowercaseChars

LetterPositions(p, c) == {Len(p) - i : i \in {j \in 1 .. Len(p) : p[j] = c}}

\* the bits of op in the range (start, width) of the letter c, as a number
Field(p, c, op) ==
    {b - SetMin(LetterPositions(p, c)) :
        b \in {q \in op : /\ q >= SetMin(LetterPositions(p, c))
                          /\ q < SetMin(LetterPositions(p, c))
                                 + Cardinality(LetterPositions(p, c))}}

LiteralValue(m) == from_str_radix(BitMappingParse(m).bits).val

\* the pattern of entry e without the surrounding whitespace
Pat(e) == Trim(e.pattern)

\* the bindings of entry e for letters of its pattern, in declaration order
BoundIn(e) == SelectSeq(e.where_clause, LAMBDA b : b.name \in Letters(Pat(e)))

\* op satisfies the declared entry e
Accepts(e, op) ==
    /\ AgreesFixed(Pat(e), op)
    /\ \A k \in 1 .. Len(BoundIn(e)) :
          \E n \in 1 .. Len(BoundIn(e)[k].mappings) :
              LiteralValue(BoundIn(e)[k].mappings[n]) = Field(Pat(e), BoundIn(e)[k].name, op)

(***************************************************************************)
(* C1: dispatch invokes exactly one handler, that of the first decision    *)
(* entry whose condition opcode & mask == value holds, with the context    *)
(* and the raw opcode; this for the dispatched opcode and, by the          *)
(* dispatcher's function, for every opcode of a byte-wide table.           *)
(***************************************************************************)
C1_FirstMatchInvoked ==
    /\ (Dispatched /\ \E k \in 1 .. Len(match_arms) : Cond(k, opcode)) =>
          /\ pc = "returned"
          /\ Len(calls) = 1
          /\ \E k \in 1 .. Len(match_arms) :
                /\ FirstCond(k, opcode)
                /\ calls[1].name = match_arms[k].call.name
                /\ calls[1].generics = match_arms[k].call.generics
                /\ calls[1].entry = match_arms[k].entry
                /\ calls[1].ctx = "ctx"
                /\ calls[1].opcode = opcode
    /\ (pc = "ready" /\ table.opcode_type = 8) =>
          \A op \in AllOpcodes : \A k \in 1 .. Len(match_arms) :
              FirstCond(k, op) =>
                  /\ Len(dispatch(match_arms, op).calls) = 1
                  /\ dispatch(match_arms, op).calls[1] =
                        [name |-> match_arms[k].call.name,
                         generics |-> match_arms[k].call.generics,
                         ctx |-> "ctx", opcode |-> op, entry |-> match_arms[k].entry]

\* a dispatch that passed over a non-matching entry and stopped before a
\* later entry that matches too
C1_Witness ==
    /\ pc = "returned"
    /\ \E k \in 2 .. Len(match_arms) : \E j \in k + 1 .. Len(match_arms) :
          /\ FirstCond(k, opcode)
          /\ Cond(j, opcode)
          /\ match_arms[j].call # match_arms[k].call
          /\ calls[1].name = match_arms[k].call.name

(***************************************************************************)
(* C2: an opcode that satisfies no decision entry's condition ends the     *)
(* dispatch in the fatal failure whose message carries the opcode, and no  *)
(* handler is invoked.                                                     *)
(***************************************************************************)
C2_UnmatchedPanics ==
    /\ (Dispatched /\ \A k \in 1 .. Len(match_arms) : ~Cond(k, opcode)) =>
          /\ pc = "panicked"
          /\ panic_msg = <<"Unhandled opcode", opcode>>
          /\ calls = <<>>
    /\ (pc = "ready" /\ table.opcode_type = 8) =>
          \A op \in AllOpcodes :
              LET outcome == dispatch(match_arms, op)
              IN  \/ /\ outcome.panic = <<"Unhandled opcode", op>>
                     /\ outcome.calls = <<>>
                  \/ \E k \in 1 .. Len(match_arms) : Cond(k, op)

C2_Witness ==
    /\ pc = "panicked"
    /\ Len(match_arms) >= 2
    /\ opcode # {}
    /\ panic_msg = <<"Unhandled opcode", opcode>>

(***************************************************************************)
(* C3 as stated: whenever an earlier entry is an exact entry for X and a   *)
(* later entry accepts X, dispatching X invokes the earlier entry's        *)
(* handler.  (Stated here for exact entries whose handler takes no         *)
(* generic argument and later entries with wildcard or variable bits.)     *)
(***************************************************************************)
ExactFor(e, op) == IsBinaryPattern(Pat(e)) /\ BinaryValue(Pat(e)) = op

C3_Original ==
    Dispatched =>
        \A i \in 1 .. Len(table.entries) : \A j \in i + 1 .. Len(table.entries) :
            (/\ ExactFor(table.entries[i], opcode)
             /\ table.entries[i].handler.generics = <<>>
             /\ ~IsBinaryPattern(Pat(table.entries[j]))
             /\ Accepts(table.entries[j], opcode)) =>
                /\ Len(calls) = 1
                /\ calls[1].name = table.entries[i].handler.name

(***************************************************************************)
(* C3 amended: whenever an earlier entry is an exact entry for X, a later  *)
(* entry accepts X, and no decision entry of an entry declared before the  *)
(* exact one matches X, dispatching X invokes the exact entry's handler    *)
(* and not the later entry's.                                              *)
(***************************************************************************)
C3_DeclarationOrderPriority ==
    Dispatched =>
        \A i \in 1 .. Len(table.entries) : \A j \in i + 1 .. Len(table.entries) :
            (/\ ExactFor(table.entries[i], opcode)
             /\ Accepts(table.entries[j], opcode)
             /\ \A k \in 1 .. Len(match_arms) : match_arms[k].entry < i => ~Cond(k, opcode)) =>
                /\ Len(calls) = 1
                /\ calls[1].entry = i
                /\ calls[1].name = table.entries[i].handler.name

\* an exact entry followed by an entry with wildcard bits that accepts its opcode
C3_Witness ==
    /\ pc = "returned"
    /\ \E i \in 1 .. Len(table.entries) : \E j \in i + 1 .. Len(table.entries) :
          /\ ExactFor(table.entries[i], opcode)
          /\ Accepts(table.entries[j], opcode)
          /\ ~IsBinaryPattern(Pat(table.entries[j]))
          /\ \E k \in 1 .. Len(match_arms) : match_arms[k].entry = j /\ Cond(k, opcode)
          /\ calls[1].entry = i
          /\ calls[1].name # table.entries[j].handler.name

(***************************************************************************)
(* The decision entries of a declared entry, and its candidates            *)
(***************************************************************************)
ArmsOf(i) == {a \in 1 .. Len(match_arms) : match_arms[a].entry = i}

Before(i) == {a \in 1 .. Len(match_arms) : match_arms[a].entry < i}

Width(e) == Len(Pat(e))

FixedMask(e) == {Width(e) - i : i \in {j \in 1 .. Width(e) : Pat(e)[j] \in {"0", "1"}}}

FixedValue(e) == {Width(e) - i : i \in {j \in 1 .. Width(e) : Pat(e)[j] = "1"}}

WildcardPositions(e) == {Width(e) - i : i \in {j \in 1 .. Width(e) : Pat(e)[j] \in {"_", "."}}}

StartBit(e, c) == SetMin(LetterPositions(Pat(e), c))

FieldRange(e, c) ==
    StartBit(e, c) .. StartBit(e, c) + Cardinality(LetterPositions(Pat(e), c)) - 1

\* an entry with exactly one bound variable; its mappings; its n-th candidate
SingleBound(e) == Len(BoundIn(e)) = 1

Mappings(e) == BoundIn(e)[1].mappings

Candidate(e, n) ==
    FixedValue(e) \cup Shl(LiteralValue(Mappings(e)[n]), StartBit(e, BoundIn(e)[1].name))

FitsField(e) ==
    \A n \in 1 .. Len(Mappings(e)) :
        /\ LiteralValue(Mappings(e)[n]) \subseteq
              0 .. Cardinality(LetterPositions(Pat(e), BoundIn(e)[1].name)) - 1
        /\ \A m \in 1 .. n - 1 :
              LiteralValue(Mappings(e)[m]) # LiteralValue(Mappings(e)[n])

\* the tag carried by decision entry a for the variable c of entry e
CarriesTag(e, a, c, tag) ==
    \A g \in 1 .. Len(e.handler.generics) :
        (e.handler.generics[g].kind = "Variable" /\ e.handler.generics[g].var_name = c) =>
            match_arms[a].call.generics[g] = <<e.handler.generics[g].enum_type, tag>>

(***************************************************************************)
(* C4 as stated: an entry with a variable bound to k mappings puts exactly *)
(* k entries into the decision table, which differ from one another only   *)
(* at the variable's bit positions, the n-th carrying the n-th tag.        *)
(* (Stated here for literals that are distinct and fit the field, and      *)
(* looked at when the entry has just been expanded.)                       *)
(***************************************************************************)
JustExpanded == pc = "expand" /\ idx > 1

C4_Original ==
    JustExpanded =>
        LET i == idx - 1
            e == table.entries[i]
        IN  (SingleBound(e) /\ FitsField(e)) =>
            /\ Cardinality(ArmsOf(i)) = Len(Mappings(e))
            /\ \A a, b \in ArmsOf(i) :
                  /\ match_arms[a].mask = match_arms[b].mask
                  /\ (match_arms[a].value \ match_arms[b].value)
                        \subseteq FieldRange(e, BoundIn(e)[1].name)
            /\ \A a \in ArmsOf(i) :
                  CarriesTag(e, a, BoundIn(e)[1].name,
                             Mappings(e)[a - Cardinality(Before(i))].variant)

(***************************************************************************)
(* C4 amended: such an entry yields k candidates, one per mapping in       *)
(* order, the n-th with value (fixed value | literal_n << start_bit); a    *)
(* candidate is rejected when an earlier accepted exact entry, or for an   *)
(* entry without wildcard bits an earlier candidate of the same entry, has *)
(* its value; the candidates not rejected are put into the decision        *)
(* table in order, after the entries accepted before, each with its value  *)
(* (cut to the opcode width), the mask of fixed bits and field range       *)
(* (the full mask without wildcard bits) and the tag of its mapping; so    *)
(* exactly k entries are added when no candidate is rejected.              *)
(***************************************************************************)
Rejected(i, n) ==
    LET e == table.entries[i] IN
    \/ \E a \in Before(i) : seen_patterns[a] = <<0 .. Width(e) - 1, Candidate(e, n)>>
    \/ /\ WildcardPositions(e) = {}
       /\ \E m \in 1 .. n - 1 : Candidate(e, m) = Candidate(e, n)

Kept(i) ==
    SelectSeq([n \in 1 .. Len(Mappings(table.entries[i])) |-> n],
              LAMBDA n : ~Rejected(i, n))

C4_ExpansionEntries ==
    JustExpanded =>
        LET i == idx - 1
            e == table.entries[i]
            c == BoundIn(e)[1].name
            kept == Kept(i)
            nb == Cardinality(Before(i))
            mask == IF WildcardPositions(e) = {} THEN 0 .. Width(e) - 1
                    ELSE FixedMask(e) \cup FieldRange(e, c)
        IN  SingleBound(e) =>
            /\ ArmsOf(i) = nb + 1 .. nb + Len(kept)
            /\ Before(i) = 1 .. nb
            /\ \A t \in 1 .. Len(kept) :
                  /\ match_arms[nb + t].value = Candidate(e, kept[t]) \cap (0 .. Width(e) - 1)
                  /\ match_arms[nb + t].mask = mask
                  /\ CarriesTag(e, nb + t, c, Mappings(e)[kept[t]].variant)

\* an expansion of which one candidate was rejected and the other kept
C4_Witness ==
    /\ JustExpanded
    /\ SingleBound(table.entries[idx - 1])
    /\ Len(Mappings(table.entries[idx - 1])) = 2
    /\ Len(Kept(idx - 1)) = 1
    /\ Cardinality(ArmsOf(idx - 1)) = 1
    /\ \E j \in 1 .. idx - 2 :
          /\ SingleBound(table.entries[j])
          /\ Len(Mappings(table.entries[j])) = 4
          /\ Cardinality(ArmsOf(j)) = 4

(***************************************************************************)
(* C5: an opcode that satisfies an entry whose variables are all bound is  *)
(* dispatched to that entry's handler with, for each variable, the tag     *)
(* mapped to the literal found in the opcode's field, and with the opcode  *)
(* itself as argument.  Stated for the first entry of the table, which no  *)
(* other entry precedes.                                                   *)
(***************************************************************************)
AllBound(e) ==
    /\ Letters(Pat(e)) # {}
    /\ \A c \in Letters(Pat(e)) : \E k \in 1 .. Len(e.where_clause) : e.where_clause[k].name = c

\* the tags mapped to the literal that the field of c holds in op
TagOf(e, c, op) ==
    UNION {{BoundIn(e)[k].mappings[n].variant :
                n \in {m \in 1 .. Len(BoundIn(e)[k].mappings) :
                          LiteralValue(BoundIn(e)[k].mappings[m]) = Field(Pat(e), c, op)}} :
           k \in {j \in 1 .. Len(BoundIn(e)) : BoundIn(e)[j].name = c}}

C5_TagResolution ==
    (Dispatched /\ table.entries # <<>>) =>
        LET e == table.entries[1] IN
        (AllBound(e) /\ Accepts(e, opcode)) =>
            /\ Len(calls) = 1
            /\ calls[1].name = e.handler.name
            /\ calls[1].opcode = opcode
            /\ \A g \in 1 .. Len(e.handler.generics) :
                  e.handler.generics[g].kind = "Variable" =>
                      /\ calls[1].generics[g][1] = e.handler.generics[g].enum_type
                      /\ calls[1].generics[g][2] \in TagOf(e, e.handler.generics[g].var_name, opcode)

(***************************************************************************)
(* C6: an entry whose pattern is written with 0 and 1 only produces one    *)
(* decision entry, which matches the opcode the pattern spells MSB-first   *)
(* and no other opcode of that width.                                      *)
(***************************************************************************)
C6_ExactPattern ==
    LET e == table.entries[1] IN
    IsBinaryPattern(e.pattern) =>
        /\ (pc = "ready") =>
              /\ Len(match_arms) = 1
              /\ \A op \in OpcodesOf(Len(e.pattern)) \cup {BinaryValue(e.pattern)} :
                    /\ ArmMatches(match_arms[1], op) <=> op = BinaryValue(e.pattern)
                    /\ dispatch(match_arms, op).calls # <<>> <=> op = BinaryValue(e.pattern)
              /\ \A b \in 0 .. Len(e.pattern) - 1 :
                    ~ArmMatches(match_arms[1], Flip(BinaryValue(e.pattern), b))
        /\ Dispatched => (pc = "returned" <=> opcode = BinaryValue(e.pattern))

\* a 16-bit exact pattern whose opcode was dispatched to its handler
C6_Witness ==
    /\ pc = "returned"
    /\ IsBinaryPattern(table.entries[1].pattern)
    /\ Len(table.entries[1].pattern) = 16
    /\ opcode = BinaryValue(table.entries[1].pattern)
    /\ calls[1].name = table.entries[1].handler.name

(***************************************************************************)
(* C7 as stated: an entry whose pattern has wildcard bits, parsed mask M   *)
(* and value V, matches an opcode O iff O & M == V.                        *)
(***************************************************************************)
EntryMatches(i, op) == \E a \in ArmsOf(i) : Cond(a, op)

BoundRanges(e) == UNION {FieldRange(e, BoundIn(e)[k].name) : k \in 1 .. Len(BoundIn(e))}

WellFormed(p) ==
    /\ Len(p) \in {8, 16, 32, 64}
    /\ \A i \in 1 .. Len(p) : p[i] \in {"0", "1", "_", "."} \cup LowercaseChars

PatternRejected == pc = "failed" /\ error \in {"pattern length", "pattern character"}

FirstEntryDone == pc # "expand" \/ idx > 1

IsBinaryLiteral(m) ==
    LET bits == BitMappingParse(m).bits
    IN  bits # <<>> /\ \A i \in 1 .. Len(bits) : bits[i] \in {"0", "1"}

Defective(e) ==
    \/ ~WellFormed(Pat(e))
    \/ \E g \in 1 .. Len(e.handler.generics) :
          /\ e.handler.generics[g].kind = "Variable"
          /\ \A k \in 1 .. Len(e.where_clause) :
                e.where_clause[k].name # e.handler.generics[g].var_name
    \/ \E k \in 1 .. Len(e.where_clause) : \E n \in 1 .. Len(e.where_clause[k].mappings) :
          ~IsBinaryLiteral(e.where_clause[k].mappings[n])

C9_AllOrNothing ==
    Compiled => \A i \in 1 .. Len(table.entries) : ~Defective(table.entries[i])

(***************************************************************************)
(* C10: after compiling any table no two exact decision entries have the   *)
(* same value, and an exact candidate is left out only when an earlier     *)
(* accepted entry has the same full-mask/value pair.                       *)
(***************************************************************************)
C10_FirstDeclaredWins ==
    Compiled =>
        \A a, b \in 1 .. Len(match_arms) :
            (/\ a < b
             /\ match_arms[a].kind = "literal"
             /\ match_arms[b].kind = "literal") => match_arms[a].value # match_arms[b].value

(***************************************************************************)
(* C11: for an entry with a pattern variable that has no binding, the      *)
(* opcode bits at that variable's positions are not part of the match      *)
(* condition: two opcodes that differ only at a position of an unbound     *)
(* variable are both matched or both not matched by each of the entry's    *)
(* decision entries.                                                       *)
(***************************************************************************)
BoundNames(e) == {e.where_clause[k].name : k \in 1 .. Len(e.where_clause)}

UnboundPositions(e) ==
    UNION {LetterPositions(Pat(e), c) : c \in Letters(Pat(e)) \ BoundNames(e)}

C11_UnboundIgnored ==
    LET e == table.entries[1] IN
    (pc = "ready" /\ UnboundPositions(e) # {}) =>
        \A a \in 1 .. Len(match_arms) :
            \A op \in OpcodesOf(Width(e)) : \A b \in UnboundPositions(e) :
                ArmMatches(match_arms[a], op) <=> ArmMatches(match_arms[a], Flip(op, b))

(***************************************************************************)
(* C12: the decision list compiled from a table is the same whatever the   *)
(* iteration orders of the hash maps: each entry's step gives one result   *)
(* for every order, and compiling the table again, under any orders, has   *)
(* one outcome, the decision list the dispatcher was built from (looked    *)
(* at for the tables with a map of more than one key; a map of one key     *)
(* has one iteration order).                                               *)
(***************************************************************************)
RECURSIVE Outcomes(_, _)
Outcomes(k, st) ==
    IF k > Len(table.entries) \/ ~st.ok THEN {st}
    ELSE UNION {Outcomes(k + 1, EntryStep(table.entries[k], st, k, hash_order)) :
                   hash_order \in IterOrders(table.entries[k])}

C12_Determinism ==
    /\ (pc = "expand" /\ idx <= Len(table.entries)) =>
          \A h1, h2 \in IterOrders(table.entries[idx]) :
              h1 # h2 => EntryResult(h1) = EntryResult(h2)
    /\ (pc = "ready" /\ \E i \in 1 .. Len(table.entries) :
                            Cardinality(IterOrders(table.entries[i])) > 1) =>
          Outcomes(1, [ok |-> TRUE, arms |-> <<>>, seen |-> <<>>])
              = {[ok |-> TRUE, arms |-> match_arms, seen |-> seen_patterns]}

\* a compiled table with an entry of two bound variables, whose maps have
\* two iteration orders, expanded into decision entries after another entry
C12_Witness ==
    /\ pc = "ready"
    /\ \E i \in 2 .. Len(table.entries) :
          /\ Cardinality(IterOrders(table.entries[i])) = 2
          /\ Len(BoundIn(table.entries[i])) = 2
          /\ Cardinality(ArmsOf(i)) >= 2
          /\ Before(i) # {}

(***************************************************************************)
(* C13: a candidate of an entry whose pattern keeps wildcard bits is left  *)
(* out of the decision table only if an entry accepted earlier is an exact *)
(* (full-mask) entry for the candidate's value; every other candidate is   *)
(* appended as a guarded entry, after all entries accepted before it and   *)
(* in the order of the mappings.  (Stated for entries with one bound       *)
(* variable, looked at when the entry has just been expanded.)             *)
(***************************************************************************)
\* the guarded decision entries of entry i made from its n-th candidate
GuardsOf(i, n) ==
    LET e == table.entries[i] IN
    {a \in ArmsOf(i) :
        /\ match_arms[a].kind = "guard"
        /\ match_arms[a].value = Candidate(e, n) \cap (0 .. Width(e) - 1)
        /\ CarriesTag(e, a, BoundIn(e)[1].name, Mappings(e)[n].variant)}

\* an exact entry accepted before entry i that has the value of candidate n
ExactBefore(i, n) ==
    LET e == table.entries[i] IN
    {a \in Before(i) :
        /\ match_arms[a].kind = "literal"
        /\ match_arms[a].mask = 0 .. Width(e) - 1
        /\ match_arms[a].value = Candidate(e, n) \cap (0 .. Width(e) - 1)}

C13_GuardedOverlap ==
    JustExpanded =>
        LET i == idx - 1
            e == table.entries[i]
            k == Len(Mappings(e))
            guards == [n \in 1 .. k |-> GuardsOf(i, n)]
        IN  (SingleBound(e) /\ WildcardPositions(e) # {}) =>
            /\ \A n \in 1 .. k : guards[n] = {} => ExactBefore(i, n) # {}
            /\ \A a \in ArmsOf(i) : \E n \in 1 .. k : a \in guards[n]
            /\ \A a \in ArmsOf(i) : \A b \in Before(i) : b < a
            /\ \A n, m \in 1 .. k :
                  n < m => \A a \in guards[n] : \A b \in guards[m] : a < b

\* after a masked entry with the value of one candidate and an exact entry
\* with the value of the other, the first candidate was appended and the
\* second left out
C13_Witness ==
    /\ JustExpanded
    /\ SingleBound(table.entries[idx - 1])
    /\ WildcardPositions(table.entries[idx - 1]) # {}
    /\ \E n, m \in 1 .. Len(Mappings(table.entries[idx - 1])) :
          /\ GuardsOf(idx - 1, n) = {}
          /\ ExactBefore(idx - 1, n) # {}
          /\ GuardsOf(idx - 1, m) # {}
          /\ \E a \in Before(idx - 1) :
                /\ match_arms[a].kind = "guard"
                /\ match_arms[a].value = Candidate(table.entries[idx - 1], m)

(***************************************************************************)
(* C14: for every pattern the parser accepts, the fixed-bit mask, the      *)
(* wildcard bits and the (start_bit, width) range of each variable are     *)
(* pairwise disjoint, their union is the set of positions                  *)
(* 0 .. bit_width - 1, and value has no bit outside mask.                  *)
(***************************************************************************)
RangeOf(p, c) == p.variables[c][1] .. p.variables[c][1] + p.variables[c][2] - 1

C14_PatternPartition ==
    (FirstEntryDone /\ ~PatternRejected) =>
        \A hash_order \in IterOrders(table.entries[1]) :
            LET p == parse_pattern(table.entries[1].pattern, hash_order)
                V == DOMAIN p.variables
            IN  /\ p.ok
                /\ p.mask \cap p.wildcard_bits = {}
                /\ \A c \in V : /\ RangeOf(p, c) \cap p.mask = {}
                                /\ RangeOf(p, c) \cap p.wildcard_bits = {}
                /\ \A c, d \in V : c # d => RangeOf(p, c) \cap RangeOf(p, d) = {}
                /\ p.mask \cup p.wildcard_bits \cup UNION {RangeOf(p, c) : c \in V}
                      = 0 .. p.bit_width - 1
                /\ p.value \subseteq p.mask

(***************************************************************************)
(* C15: after compiling a table, an opcode that satisfies some declared    *)
(* entry (it agrees with the entry's pattern on every fixed bit and, for   *)
(* each bound variable, its field holds one of the listed literals) is     *)
(* dispatched to a handler and does not end in the unhandled-opcode panic. *)
(***************************************************************************)
Satisfied(op) == \E i \in 1 .. Len(table.entries) : Accepts(table.entries[i], op)

C15_CoveragePreserved ==
    (Dispatched /\ Satisfied(opcode)) => (pc = "returned" /\ Len(calls) = 1)

(***************************************************************************)
(* C16: every decision entry made from a declared entry E has no value     *)
(* bit outside its mask, and every opcode it matches agrees with E's       *)
(* pattern on all of E's fixed 0/1 positions, whatever the bit literals    *)
(* of the bindings (literals wider than the field included).               *)
(***************************************************************************)
C16_ConsistentWithPattern ==
    (pc = "ready") =>
        \A a \in 1 .. Len(match_arms) :
            /\ match_arms[a].value \subseteq match_arms[a].mask
            /\ \A op \in OpcodesOf(table.opcode_type) :
                  ArmMatches(match_arms[a], op) =>
                      AgreesFixed(Pat(table.entries[match_arms[a].entry]), op)

====
